---- MODULE Spec2Model ----
(***************************************************************************)
(* The review pipeline of chesseval: GameReviewer.create_review            *)
(* (game_reviewer.py) and GameManager.create_review (main.py).             *)
(*                                                                         *)
(* One run of create_review over one move tree.  Every node of the tree    *)
(* is walked by one call of _eval_inner; the call of the root runs inside  *)
(* create_review, the calls of the other nodes are the tasks that          *)
(* asyncio.gather starts.  A step of the model is what one task does       *)
(* between two suspension points.  The engine is an outside process: it    *)
(* answers or fails each pending analyse request in any order.             *)
(***************************************************************************)
EXTENDS Integers, Sequences, FiniteSets, TLC

\* ----------------------------------------------------------------- bounds
\* The largest move tree (number of nodes, the root included).
MaxNodes == 4
\* The position keys (board.fen() values): at most one per node.
Fens == 1..MaxNodes

\* ------------------------------------------------------ program constants
\* lru_cache(maxsize=1024)
maxsize == 1024
\* chess.pgn.NAG_* as python-chess numbers them
NAG_GOOD_MOVE == 1
NAG_MISTAKE == 2
NAG_BLUNDER == 4
NAG_DUBIOUS_MOVE == 6

WHITE == "w"
BLACK == "b"

VARIABLES
    impl,       \* which create_review runs: "GameReviewer" or "GameManager"
    parent,     \* the move tree: parent[n] of node n, 0 for the root (node 1)
    position,   \* the board state of each node, as a number
    fen,        \* board.fen() of each node, as a key number
    rootTurn,   \* side to move in the root position
    nags,       \* node.nags of each node
    comment,    \* node.comment of each node (a sequence of characters)
    phase,      \* where create_review is
    outcome,    \* what create_review delivers: "game" or the exception
    pc,         \* where the walk (_eval_inner) of each node is
    exc,        \* the exception a failed walk raised
    score,      \* local `score` of each walk
    deficit,    \* local `deficit` of each walk
    cache,      \* the lru_cache of _eval_fen, least recently used first
    calls,      \* engine.analyse calls made, per key
    lateCalls,  \* engine.analyse calls made after engine.quit was invoked
    quits,      \* engine.quit invocations
    evals,      \* evaluations obtained, per node
    added       \* the NAGs the walk passed to node.nags.add, per node

vars == <<impl, parent, position, fen, rootTurn, nags, comment, phase, outcome, pc, exc,
          score, deficit, cache, calls, lateCalls, quits, evals, added>>

\* ------------------------------------------------------------- the tree
Nodes == DOMAIN parent
Root == 1
Children(n) == {c \in Nodes : parent[c] = n}

RECURSIVE Depth(_)
Depth(n) == IF n = Root THEN 0 ELSE 1 + Depth(parent[n])

Other(color) == IF color = WHITE THEN BLACK ELSE WHITE

\* node.board().turn: the side to move after the moves from the root to n
Turn(n) == IF Depth(n) % 2 = 0 THEN rootTurn ELSE Other(rootTurn)

\* ------------------------------------------------ chess.engine.Score
Cp(x) == [t |-> "cp", v |-> x]
Mate(x) == [t |-> "mate", v |-> x]
MateGiven == [t |-> "mategiven", v |-> 0]
NoScore == [relative |-> [t |-> "none", v |-> 0], turn |-> WHITE]
\* Score.__neg__
Neg(s) ==
    CASE s.t = "cp" -> Cp(-s.v)
      [] s.t = "mate" -> IF s.v = 0 THEN MateGiven ELSE Mate(-s.v)
      [] OTHER -> Mate(0)

ScoreNumFlatMate(s, mate_score) ==
    CASE s.t = "cp" -> s.v
      [] s.t = "mate" -> IF s.v > 0 THEN mate_score ELSE -mate_score
      [] OTHER -> mate_score
\* Score.score(mate_score=...)
ScoreNum(s, mate_score) ==
    CASE s.t = "cp" -> s.v
      [] s.t = "mate" -> IF s.v > 0 THEN mate_score - s.v ELSE -mate_score - s.v
      [] OTHER -> mate_score

\* Score.mate(): None for a centipawn score (IsMate is `mate is not None`),
\* the signed distance for Mate, 0 for MateGiven
IsMate(s) == s.t # "cp"
MateOf(s) == IF s.t = "mate" THEN s.v ELSE 0

\* PovScore(relative, turn), PovScore.pov(color), PovScore.white()
PovScore(s, turn) == [relative |-> s, turn |-> turn]
Pov(ps, color) == IF ps.turn = color THEN ps.relative ELSE Neg(ps.relative)
White(ps) == Pov(ps, WHITE)

\* ------------------------------------------------ utils.sanitize_povscore
Digit(d) == <<"0", "1", "2", "3", "4", "5", "6", "7", "8", "9">>[d + 1]

RECURSIVE NatStr(_)
NatStr(n) == IF n < 10 THEN <<Digit(n)>> ELSE NatStr(n \div 10) \o <<Digit(n % 10)>>

Abs(x) == IF x < 0 THEN -x ELSE x

\* str(int): f"{mate}"
IntStr(x) == IF x < 0 THEN <<"-">> \o NatStr(-x) ELSE NatStr(x)

\* f"{cp/100:+.2f}"
FormatCp(x) ==
    <<IF x < 0 THEN "-" ELSE "+">> \o NatStr(Abs(x) \div 100) \o <<".">>
        \o <<Digit((Abs(x) % 100) \div 10), Digit(Abs(x) % 10)>>

sanitize_povscore(s) ==
    IF IsMate(s) THEN <<"M">> \o IntStr(MateOf(s)) ELSE FormatCp(s.v)

\* ------------------------------------------------ the annotator
\* mate_score=20_00 in game_reviewer.py, mate_score=10000 in main.py
MateScore(i) == IF i = "GameReviewer" THEN 2000 ELSE 10000

DeficitOfSideToMove(prevscore, sc, turn, mate_score) ==
    ScoreNum(Pov(prevscore, turn), mate_score) - ScoreNum(Pov(sc, turn), mate_score)
\* prev_num - cur_num, both .pov(not board.turn).score(mate_score=...)
Deficit(prevscore, sc, turn, mate_score) ==
    ScoreNum(Pov(prevscore, Other(turn)), mate_score)
        - ScoreNum(Pov(sc, Other(turn)), mate_score)

ClassifyCumulative(d) ==
    (IF d >= 500 THEN {NAG_BLUNDER} ELSE {})
        \cup (IF d >= 300 THEN {NAG_MISTAKE} ELSE {})
        \cup (IF d >= 100 THEN {NAG_DUBIOUS_MOVE} ELSE {})
ClassifyStrict(d) ==
    IF d > 500 THEN {NAG_BLUNDER}
    ELSE IF d > 300 THEN {NAG_MISTAKE}
    ELSE IF d > 100 THEN {NAG_DUBIOUS_MOVE}
    ELSE {}
\* the if/elif chain over the deficit: the NAG the walk adds
Classify(d) ==
    IF d >= 500 THEN {NAG_BLUNDER}
    ELSE IF d >= 300 THEN {NAG_MISTAKE}
    ELSE IF d >= 100 THEN {NAG_DUBIOUS_MOVE}
    ELSE {}

NodeCommentRelative(i, old, newnags, sc) ==
    IF i = "GameManager" \/ newnags # {} THEN sanitize_povscore(sc.relative) ELSE old
\* node.comment after the walk annotated the node: GameManager sets it for
\* every node, GameReviewer under `if node.nags:`
NodeComment(i, old, newnags, sc) ==
    IF i = "GameManager" THEN sanitize_povscore(White(sc))
    ELSE IF newnags # {} THEN sanitize_povscore(White(sc))
    ELSE old

\* ------------------------------------------------ the engine
\* The evaluations the engine may answer with, relative to the side to move.
\* A tree of one move is evaluated over the whole range, so that every deficit
\* around the thresholds occurs; a tree of up to three nodes over values that
\* give untagged, dubious and blunder moves; a tree of four nodes over two
\* values; a larger tree over one, leaving its schedules to explore.
MaxCp == 510
WideScores ==
    {Cp(x) : x \in -MaxCp..MaxCp} \cup {Mate(k) : k \in -2..2} \cup {MateGiven}
FewScores == {Cp(0), Cp(120), Mate(2)}
TwoScores == {Cp(0), Cp(120)}
OneScore == {Cp(120)}
Answers(n) ==
    IF Cardinality(Nodes) > 4 THEN OneScore
    ELSE IF Cardinality(Nodes) > 3 THEN TwoScores
    ELSE IF n # Root /\ Cardinality(Nodes) = 2 THEN WideScores
    ELSE FewScores

EngineLeftRunning == phase # "start"
\* The engine process runs from popen_uci until engine.quit() has returned.
EngineAlive == phase \in {"walking", "closing"}
QuitInvoked == quits > 0

\* ------------------------------------------------ the lru_cache of _eval_fen
\* The cache holds the coroutine object that the call _eval_fen(fen) made,
\* named by the node whose walk made it.
CacheIndex(k) == {i \in DOMAIN cache : cache[i].fen = k}
CacheHit(k) == CacheIndex(k) # {}
Without(s, i) == [j \in 1..(Len(s) - 1) |-> IF j < i THEN s[j] ELSE s[j + 1]]
\* a hit moves the entry to the most recently used end
CacheTouch(k) ==
    LET i == CHOOSE j \in CacheIndex(k) : TRUE
    IN  Append(Without(cache, i), cache[i])
\* a miss stores the new coroutine, evicting the least recently used entry
CacheStore(k, n) ==
    Append(IF Len(cache) >= maxsize THEN Tail(cache) ELSE cache,
           [fen |-> k, owner |-> n])

\* ------------------------------------------------ inputs
\* The trees of up to MaxNodes nodes: node 1 is the root, a parent is numbered
\* below its children, the variations of a node are ordered by number.
Trees ==
    UNION {{p \in [1..n -> 0..(n - 1)] :
                /\ p[1] = 0
                /\ \A i \in 2..n : p[i] >= 1 /\ p[i] < i} : n \in 1..MaxNodes}

RECURSIVE DepthIn(_, _)
DepthIn(p, n) == IF n = 1 THEN 0 ELSE 1 + DepthIn(p, p[n])

SetMax(S) == CHOOSE x \in S : \A y \in S : y <= x

\* The board states of a tree: piece placement, side to move, castling rights
\* and en-passant square.  A board state holds the side to move, so two nodes
\* with one board state are an even number of plies apart (a repetition, or
\* null moves).  Board states are numbered by first occurrence.
Positions(p) ==
    {f \in [DOMAIN p -> Fens] :
        /\ f[1] = 1
        /\ \A i \in DOMAIN p : i > 1 => f[i] <= 1 + SetMax({f[j] : j \in 1..(i - 1)})
        /\ \A i, j \in DOMAIN p :
              f[i] = f[j] => DepthIn(p, i) % 2 = DepthIn(p, j) % 2}

\* The move counters of board.fen().  The moves of the trees are neither pawn
\* moves nor captures: the halfmove clock counts the plies from the root; the
\* fullmove number goes up after every move of Black.
HalfmoveClock(p, n) == DepthIn(p, n)
FullmoveNumber(p, n, rt) ==
    IF rt = WHITE THEN 1 + DepthIn(p, n) \div 2 ELSE 1 + (DepthIn(p, n) + 1) \div 2

\* board.fen(): the board state and the two counters
FenFields(p, pos, rt, n) == <<pos[n], HalfmoveClock(p, n), FullmoveNumber(p, n, rt)>>

\* The keys of a tree: two nodes have one key when their FENs are equal field
\* by field.  Keys are numbered by first occurrence.
FenMaps(p, pos, rt) ==
    {f \in [DOMAIN p -> Fens] :
        /\ f[1] = 1
        /\ \A i \in DOMAIN p : i > 1 => f[i] <= 1 + SetMax({f[j] : j \in 1..(i - 1)})
        /\ \A i, j \in DOMAIN p :
              f[i] = f[j] <=> FenFields(p, pos, rt, i) = FenFields(p, pos, rt, j)}

\* ------------------------------------------------ create_review
Init ==
    /\ impl \in {"GameReviewer", "GameManager"}
    /\ parent \in Trees
    /\ rootTurn \in {WHITE, BLACK}
    /\ position \in Positions(parent)
    /\ fen \in FenMaps(parent, position, rootTurn)
    \* the PGN may carry NAGs already: none, or a "!" on the last move
    /\ \E a \in BOOLEAN :
          nags = [n \in DOMAIN parent |->
                    IF a /\ n > 1 /\ n = Len(parent) THEN {NAG_GOOD_MOVE} ELSE {}]
    /\ comment = [n \in DOMAIN parent |-> <<>>]
    /\ phase = "start"
    /\ outcome = "none"
    /\ pc = [n \in DOMAIN parent |-> "idle"]
    /\ exc = [n \in DOMAIN parent |-> "none"]
    /\ score = [n \in DOMAIN parent |-> NoScore]
    /\ deficit = [n \in DOMAIN parent |-> 0]
    /\ cache = <<>>
    /\ calls = [k \in Fens |-> 0]
    /\ lateCalls = 0
    /\ quits = 0
    /\ evals = [n \in DOMAIN parent |-> 0]
    /\ added = [n \in DOMAIN parent |-> {}]

QuitOnSuccessOnly(q, st) == IF st = "done" THEN q + 1 ELSE q
\* try: await _eval_inner(game, None); return game / finally: await
\* engine.quit(): quit is invoked however the walk of the root ended
Finally(q, st) == q + 1

\* The walk of node n ends in state st (done or failed).  The walk of the root
\* is awaited by create_review itself: its end enters the finally clause.
EndWalk(n, st, e) ==
    /\ exc' = [exc EXCEPT ![n] = e]
    /\ IF n = Root
       THEN /\ phase' = "closing"
            /\ outcome' = IF st = "done" THEN "game" ELSE e
            /\ quits' = Finally(quits, st)
       ELSE UNCHANGED <<phase, outcome, quits>>

\* transport, engine = await chess.engine.popen_uci(ENGINE)
PopenUci ==
    /\ phase = "start"
    /\ phase' = "walking"
    /\ pc' = [pc EXCEPT ![Root] = "ready"]
    /\ UNCHANGED <<impl, parent, position, fen, rootTurn, nags, comment, outcome, exc,
                   score, deficit, cache, calls, lateCalls, quits, evals, added>>

RaisedInsideTry(q) == q + 1
\* popen_uci is awaited before the try block: when it raises, the finally
\* clause is not entered and engine.quit is not invoked
RaisedBeforeTry(q) == q

\* popen_uci raises: create_review raises before the try block
PopenUciFails ==
    /\ phase = "start"
    /\ phase' = "raised"
    /\ outcome' = "EngineUnavailable"
    /\ quits' = RaisedBeforeTry(quits)
    /\ UNCHANGED <<impl, parent, position, fen, rootTurn, nags, comment, pc, exc,
                   score, deficit, cache, calls, lateCalls, evals, added>>

\* gather makes the tasks of the variations in order and the event loop runs
\* what was scheduled first first: the walks of the variations of one node
\* start in order, and all of them have started before the engine's answer to
\* one of them, or the wake-up of their parent, is handled.
StartsNext(n) == \A m \in Nodes : (parent[m] = parent[n] /\ m < n) => pc[m] # "ready"
AllStarted(S) == \A m \in S : pc[m] # "ready"
Siblings(n) == {m \in Nodes : parent[m] = parent[n]}

\* The walk of n runs to its first suspension: board = node.board(), then
\* GameManager calls engine.analyse; GameReviewer calls _eval_fen(board.fen())
\* through the lru_cache and awaits the coroutine object it returns.  A coroutine
\* object that another walk awaits or has awaited cannot be awaited again:
\* the await raises RuntimeError.
StartWalk(n) ==
    /\ pc[n] = "ready"
    /\ StartsNext(n)
    /\ IF impl = "GameReviewer" /\ CacheHit(fen[n])
       THEN /\ cache' = CacheTouch(fen[n])
            /\ pc' = [pc EXCEPT ![n] = "failed"]
            /\ EndWalk(n, "failed", "RuntimeError")
            /\ UNCHANGED <<calls, lateCalls>>
       ELSE /\ cache' = IF impl = "GameReviewer" THEN CacheStore(fen[n], n) ELSE cache
            /\ calls' = [calls EXCEPT ![fen[n]] = @ + 1]
            /\ lateCalls' = IF QuitInvoked THEN lateCalls + 1 ELSE lateCalls
            /\ pc' = [pc EXCEPT ![n] = "waiting"]
            /\ UNCHANGED <<exc, phase, outcome, quits>>
    /\ UNCHANGED <<impl, parent, position, fen, rootTurn, nags, comment, score, deficit,
                   evals, added>>

GatherSettled(n) == \A c \in Children(n) : pc[c] \in {"done", "failed"}
GatherFirstDone(n) == \E c \in Children(n) : pc[c] = "done"
\* asyncio.gather of the walks of the variations: all of them have returned
GatherDone(n) == \A c \in Children(n) : pc[c] = "done"

AnnotatesParent(n) == IF n = Root THEN n ELSE parent[n]
\* node.nags.add(...), node.comment = ...: the walk writes the node it was
\* called with
Annotates(n) == n

\* engine.analyse answers the request of node n with evaluation s: the walk
\* classifies the move, writes nags and comment, and starts the walks of the
\* variations; with no variation it returns.
AnalyseReturns(n, s) ==
    LET sc == PovScore(s, Turn(n))
        d == IF n = Root THEN 0
             ELSE Deficit(score[parent[n]], sc, Turn(n), MateScore(impl))
        tag == IF n = Root THEN {} ELSE Classify(d)
        w == Annotates(n)
        newnags == nags[w] \cup tag
    IN  /\ pc[n] = "waiting"
        /\ EngineAlive
        /\ AllStarted(Siblings(n))
        /\ score' = [score EXCEPT ![n] = sc]
        /\ evals' = [evals EXCEPT ![n] = @ + 1]
        /\ deficit' = [deficit EXCEPT ![n] = d]
        /\ added' = [added EXCEPT ![w] = @ \cup tag]
        /\ nags' = [nags EXCEPT ![w] = newnags]
        /\ comment' = [comment EXCEPT ![w] = NodeComment(impl, @, newnags, sc)]
        /\ IF Children(n) = {}
           THEN /\ pc' = [pc EXCEPT ![n] = "done"]
                /\ EndWalk(n, "done", "none")
           ELSE /\ pc' = [c \in Nodes |->
                            IF c = n THEN "gathering"
                            ELSE IF c \in Children(n) THEN "ready" ELSE pc[c]]
                /\ UNCHANGED <<exc, phase, outcome, quits>>
        /\ UNCHANGED <<impl, parent, position, fen, rootTurn, cache, calls, lateCalls>>

\* engine.analyse raises for the request of node n (timeout, protocol error,
\* engine terminated): the walk of n raises.
AnalyseRaises(n) ==
    /\ pc[n] = "waiting"
    /\ pc' = [pc EXCEPT ![n] = "failed"]
    /\ EndWalk(n, "failed", "EngineError")
    /\ UNCHANGED <<impl, parent, position, fen, rootTurn, nags, comment, score, deficit,
                   cache, calls, lateCalls, evals, added>>

\* await asyncio.gather(*coros) returns: the walk of n returns
GatherReturns(n) ==
    /\ pc[n] = "gathering"
    /\ GatherDone(n)
    /\ pc' = [pc EXCEPT ![n] = "done"]
    /\ EndWalk(n, "done", "none")
    /\ UNCHANGED <<impl, parent, position, fen, rootTurn, nags, comment, score, deficit,
                   cache, calls, lateCalls, evals, added>>

\* gather raises the exception of a failed variation at once; the walks of
\* the other variations keep running
GatherRaises(n) ==
    /\ pc[n] = "gathering"
    /\ AllStarted(Children(n))
    /\ \E c \in Children(n) :
          /\ pc[c] = "failed"
          /\ pc' = [pc EXCEPT ![n] = "failed"]
          /\ EndWalk(n, "failed", exc[c])
    /\ UNCHANGED <<impl, parent, position, fen, rootTurn, nags, comment, score, deficit,
                   cache, calls, lateCalls, evals, added>>

\* await engine.quit() returns: create_review returns the game or re-raises
QuitReturns ==
    /\ phase = "closing"
    /\ phase' = IF outcome = "game" THEN "returned" ELSE "raised"
    /\ UNCHANGED <<impl, parent, position, fen, rootTurn, nags, comment, outcome, pc, exc,
                   score, deficit, cache, calls, lateCalls, quits, evals, added>>

Next ==
    \/ PopenUci
    \/ PopenUciFails
    \/ \E n \in Nodes : StartWalk(n)
    \/ \E n \in Nodes : \E s \in Answers(n) : AnalyseReturns(n, s)
    \/ \E n \in Nodes : AnalyseRaises(n)
    \/ \E n \in Nodes : GatherReturns(n)
    \/ \E n \in Nodes : GatherRaises(n)
    \/ QuitReturns

Spec == Init /\ [][Next]_vars

\* ------------------------------------------------ properties
Finished == phase \in {"returned", "raised"}
Opened == phase # "start" /\ outcome # "EngineUnavailable"
EngineFailed == \E n \in Nodes : exc[n] = "EngineError"
Requested(n) == pc[n] \in {"waiting", "gathering", "done", "failed"}
Evaluated(n) == evals[n] > 0
Mover(n) == Other(Turn(n))
\* the evaluation of a node as a number, from White's side
WhiteNum(n) == ScoreNum(White(score[n]), MateScore(impl))

\* C1: once the engine session is open, engine.quit is invoked exactly once on
\* every exit path: not before the walk of the root has ended, once when
\* create_review enters its finally clause, and never again, whether the walk
\* succeeded or an evaluation failed while other branches were running.
C1_QuitExactlyOnce ==
    /\ quits <= 1
    /\ (phase \in {"start", "walking"} => quits = 0)
    /\ (phase = "closing" => quits = 1)
    /\ (Finished /\ Opened => quits = 1)

\* a run that raised because an evaluation failed while the walk of a sibling
\* branch was still waiting for the engine
C1_Witness ==
    /\ phase = "raised"
    /\ outcome = "EngineError"
    /\ quits = 1
    /\ \E a, b \in Children(Root) : a # b /\ pc[a] = "failed" /\ pc[b] = "waiting"

\* C2: no evaluation request is issued to the engine, or pending on it, once
\* engine.quit has been invoked; stated for the runs in which no walk failed
\* for another reason than the engine.
C2_NoRequestAfterQuit ==
    (QuitInvoked /\ \A n \in Nodes : exc[n] # "RuntimeError") =>
        (lateCalls = 0 /\ \A n \in Nodes : pc[n] # "waiting")

\* C3: if the engine opens and answers every request, create_review ends by
\* returning the game, every node evaluated exactly once and its walk returned.
C3_ReturnsAllWalkedOnce ==
    (Finished /\ Opened /\ ~EngineFailed) =>
        /\ phase = "returned"
        /\ \A n \in Nodes : evals[n] = 1 /\ pc[n] = "done"

\* C4: when two nodes have the same position key, the later lookup of
\* _eval_fen does not fail and makes no new engine call, and both walks obtain
\* the same evaluation.
C4_SharedKeyServedFromCache ==
    \A m, n \in Nodes :
        (impl = "GameReviewer" /\ m # n /\ fen[m] = fen[n]
            /\ Requested(m) /\ Requested(n) /\ ~EngineFailed) =>
                /\ exc[m] # "RuntimeError" /\ exc[n] # "RuntimeError"
                /\ calls[fen[n]] = 1
                /\ (Evaluated(m) /\ Evaluated(n) => score[m] = score[n])

\* C5: in a run of GameReviewer.create_review in which the engine answers, the
\* engine was called exactly once for every key of the tree when the run has
\* ended, and never more than twice for a key.
C5_OneCallPerKey ==
    impl = "GameReviewer" =>
        /\ \A k \in Fens : calls[k] <= 2
        /\ (Finished /\ Opened /\ ~EngineFailed =>
                \A n \in Nodes : calls[fen[n]] = 1)

\* C6: the tag the walk adds to a non-root node follows the threshold table:
\* deficit >= 500 blunder, 300..499 mistake, 100..299 dubious, below 100 none;
\* and the tag is on the node.
C6_ThresholdTable ==
    \A n \in Nodes \ {Root} : Evaluated(n) =>
        /\ (deficit[n] >= 500 => added[n] = {NAG_BLUNDER})
        /\ (deficit[n] >= 300 /\ deficit[n] < 500 => added[n] = {NAG_MISTAKE})
        /\ (deficit[n] >= 100 /\ deficit[n] < 300 => added[n] = {NAG_DUBIOUS_MOVE})
        /\ (deficit[n] < 100 => added[n] = {})
        /\ added[n] \subseteq nags[n]

\* a move whose deficit is exactly 499: a mistake, not yet a blunder
C6_Witness ==
    \E n \in Nodes \ {Root} :
        Evaluated(n) /\ deficit[n] = 499 /\ nags[n] = {NAG_MISTAKE}

\* C7: the deficit of a non-root node is the parent's evaluation minus the
\* node's own, both from the side that just moved: White's numbers for a move
\* of White, their negations for a move of Black.
C7_DeficitFromMover ==
    \A n \in Nodes \ {Root} : Evaluated(n) =>
        deficit[n] = IF Mover(n) = WHITE
                     THEN WhiteNum(parent[n]) - WhiteNum(n)
                     ELSE WhiteNum(n) - WhiteNum(parent[n])

\* a move of Black after which White stands better: a positive deficit
C7_Witness ==
    \E n \in Nodes \ {Root} :
        /\ Evaluated(n)
        /\ Mover(n) = BLACK
        /\ WhiteNum(n) > WhiteNum(parent[n])
        /\ deficit[n] > 0

\* C8: the walk of a variation exists only after its parent obtained its own
\* evaluation and wrote its tag and comment, and the walk of a node has
\* returned only if the walks of all its variations have.
C8_ParentBeforeChildren ==
    /\ \A n \in Nodes \ {Root} :
          pc[n] # "idle" => Evaluated(parent[n]) /\ pc[parent[n]] # "waiting"
    /\ \A n \in Nodes :
          pc[n] = "done" => \A c \in Children(n) : pc[c] = "done"

\* a later variation has returned while an earlier one waits for the engine,
\* and a node with a variation has returned
C8_Witness ==
    /\ \E a, b \in Nodes :
          a < b /\ parent[a] = parent[b] /\ pc[a] = "waiting" /\ pc[b] = "done"
    /\ \E n \in Nodes : Children(n) # {} /\ pc[n] = "done"

\* C9: after a review of a tree that carried no tag and has no
\* severity-worthy move (every deficit below 100) no node has a comment or a
\* tag.
C9_NoTagNoComment ==
    (/\ phase = "returned"
     /\ \A n \in Nodes : nags[n] = added[n]
     /\ \A n \in Nodes \ {Root} : deficit[n] < 100) =>
        \A n \in Nodes : comment[n] = <<>> /\ nags[n] = {}

\* C10: the comment of a node the review tagged is the formatted evaluation of
\* the node's own position from White's side: the engine's score when White is
\* to move there, its negation when Black is.
C10_CommentFromWhite ==
    \A n \in Nodes : added[n] # {} =>
        comment[n] = sanitize_povscore(IF Turn(n) = WHITE THEN score[n].relative
                                       ELSE Neg(score[n].relative))

\* a tagged move of White: Black is to move, and the comment is neither the
\* engine's score for the side to move nor the parent's
C10_Witness ==
    \E n \in Nodes \ {Root} :
        /\ added[n] # {}
        /\ Mover(n) = WHITE
        /\ comment[n] # sanitize_povscore(score[n].relative)
        /\ comment[n] # sanitize_povscore(White(score[parent[n]]))

\* C11: when an engine evaluation request has failed, create_review does not
\* return the tree: the failure goes up from the failed walk through every
\* gather to the walk of the root, create_review invokes engine.quit once and
\* ends by raising.
C11_FailureAborts ==
    /\ EngineFailed => (outcome # "game" /\ phase # "returned")
    /\ \A n \in Nodes \ {Root} :
          pc[n] = "failed" => pc[parent[n]] \in {"gathering", "failed"}
    /\ pc[Root] = "failed" =>
          (phase \in {"closing", "raised"} /\ outcome = exc[Root] /\ quits = 1)
    /\ (Finished /\ EngineFailed) => (phase = "raised" /\ quits = 1)

\* the request of a node below the root failed and create_review raised that
\* failure after closing the engine
C11_Witness ==
    /\ phase = "raised"
    /\ outcome = "EngineError"
    /\ quits = 1
    /\ \E n \in Nodes \ {Root} : exc[n] = "EngineError" /\ Depth(n) >= 2

\* C12: when opening the engine fails, create_review raises with no node's
\* comment or tags changed, no evaluation requested and engine.quit not invoked.
C12_OpenFailureTouchesNothing ==
    outcome = "EngineUnavailable" =>
        /\ phase = "raised"
        /\ quits = 0
        /\ lateCalls = 0
        /\ \A k \in Fens : calls[k] = 0
        /\ \A n \in Nodes :
              /\ pc[n] = "idle"
              /\ evals[n] = 0
              /\ comment[n] = <<>>
              /\ added[n] = {}
              /\ nags[n] \subseteq {NAG_GOOD_MOVE}

\* opening failed for a game that carries a NAG
C12_Witness ==
    /\ outcome = "EngineUnavailable"
    /\ phase = "raised"
    /\ \E n \in Nodes : nags[n] = {NAG_GOOD_MOVE}

\* C13: no node ever gets the comment "M0" (the engine reports a position
\* in which the side to move is checkmated as mate 0).
C13_NeverM0 ==
    (\A m \in Nodes : Evaluated(m) => score[m].relative # MateGiven) =>
        \A n \in Nodes : comment[n] # <<"M", "0">>

\* C14: two nodes with the same board state have the same key, whatever their
\* move counters.
C14_SameBoardSameKey ==
    \A m, n \in Nodes : position[m] = position[n] => fen[m] = fen[n]

\* C15: the cache changes only the number of engine calls: a run with the
\* cache ends as a run without it does, by returning the game when the engine
\* answered every request and by raising the engine's failure otherwise.
C15_CacheTransparent ==
    (impl = "GameReviewer" /\ Finished /\ Opened) =>
        /\ outcome \in {"game", "EngineError"}
        /\ (outcome = "EngineError" => EngineFailed)

\* C16: a mate evaluation is rendered with an explicit sign, then the letter
\* M, then the mate distance N: +M<N> when the evaluated side (White, for a
\* node's comment) mates in N and -M<N> when it is mated in N.
C16_SignThenM ==
    \A n \in Nodes :
        (Evaluated(n) /\ nags[n] # {} /\ IsMate(White(score[n]))) =>
            LET v == MateOf(White(score[n]))
            IN  /\ (v > 0 => comment[n] = <<"+", "M">> \o NatStr(v))
                /\ (v < 0 => comment[n] = <<"-", "M">> \o NatStr(-v))

C18_OwnNodeOnly ==
    [][\A n \in Nodes :
          (nags'[n] # nags[n] \/ comment'[n] # comment[n]) =>
              /\ pc[n] = "waiting"
              /\ pc'[n] \in {"gathering", "done"}
              /\ evals[n] = 0
              /\ evals'[n] = 1]_vars

\* two variations of one node, each tagged by its own walk while the walk of
\* their parent waits for both
C18_Witness ==
    \E a, b \in Nodes :
        /\ a # b
        /\ parent[a] = parent[b]
        /\ pc[parent[a]] = "gathering"
        /\ added[a] # {}
        /\ added[b] # {}

\* C19 (as amended): after an even position (0 centipawns), a move into a
\* position where the side to move mates in 2 has the deficit mate_score - 2
\* (1998, or 9998 in main.py) and is tagged blunder; a move into a position
\* where the mover mates in 2 has the deficit -(mate_score - 2) and no tag.
C19_MateInTwoIsBlunder ==
    \A n \in Nodes \ {Root} :
        (Evaluated(n) /\ score[parent[n]].relative = Cp(0)) =>
            /\ score[n].relative = Mate(2) =>
                  /\ deficit[n] = MateScore(impl) - 2
                  /\ added[n] = {NAG_BLUNDER}
            /\ score[n].relative = Mate(-2) =>
                  /\ deficit[n] = -(MateScore(impl) - 2)
                  /\ added[n] = {}

\* C19 as claimed: the deficit is at least the mate-equivalent constant
C19_DeficitAtLeastMateScore ==
    \A n \in Nodes \ {Root} :
        (/\ Evaluated(n)
         /\ score[parent[n]].relative = Cp(0)
         /\ score[n].relative = Mate(2)) =>
            (deficit[n] >= MateScore(impl) /\ added[n] = {NAG_BLUNDER})

\* the mover is mated in 2 after an even position
C19_Witness ==
    \E n \in Nodes \ {Root} :
        /\ Evaluated(n)
        /\ score[parent[n]].relative = Cp(0)
        /\ score[n].relative = Mate(2)
        /\ nags[n] = {NAG_BLUNDER}

\* C20: the tag set of a node only grows, the review adds at most one
\* severity tag to a node and none to the root.
C20_TagsOnlyGrow ==
    [][\A n \in Nodes :
          /\ nags[n] \subseteq nags'[n]
          /\ Cardinality(added'[n]) <= 1
          /\ added'[n] \subseteq {NAG_BLUNDER, NAG_MISTAKE, NAG_DUBIOUS_MOVE}
          /\ nags'[n] \ nags[n] \subseteq added'[n]
          /\ added'[Root] = {}]_vars

\* a move that carried a "!" before the review and got a severity tag from it
C20_Witness ==
    \E n \in Nodes \ {Root} : nags[n] = {NAG_GOOD_MOVE, NAG_DUBIOUS_MOVE}

====
